---------------------------- MODULE Spec2Model ----------------------------
(***************************************************************************)
(* Model of the LureDB search core: ColorSearchProvider                    *)
(* (src/src/colorSearchProvider.ts), LureSearchProvider                    *)
(* (src/unnamed/part_000) and the colour cross-reference of the lure       *)
(* details view (src/src/extension.ts).                                    *)
(*                                                                         *)
(* Strings are sequences of one-character strings.  An optional value      *)
(* (undefined / null / a missing JSON key) is a sequence of length 0, a    *)
(* present value x is the one-element sequence <<x>>.                      *)
(***************************************************************************)
EXTENDS Integers, Sequences, FiniteSets, TLC

VARIABLES
    doc,            \* the content of data.json when it was last read
    colorDatabase,  \* ColorSearchProvider.database
    colorCache,     \* ColorSearchProvider.colorCache
    colorLoads,     \* history of the loads of the colour index
    lureDatabase,   \* LureSearchProvider.database
    lureCache,      \* LureSearchProvider.lureCache
    lureLoads,      \* history of the loads of the lure index
    colorLookup,    \* extension.ts: the module-level colorLookup map
    op              \* the last call made to the core and what it returned

vars == <<doc, colorDatabase, colorCache, colorLoads, lureDatabase, lureCache,
          lureLoads, colorLookup, op>>

(***************************************************************************)
(* Bounds of the model.                                                    *)
(***************************************************************************)
MaxColors == 2      \* colours listed under the creek-chub producer
MaxLures == 2       \* lures listed under the creek-chub producer

None == << >>
Some(x) == << x >>
IsSome(o) == Len(o) > 0
Get(o) == o[1]

(***************************************************************************)
(* Strings.                                                                *)
(***************************************************************************)
Lowers == <<"a","b","c","d","e","f","g","h","i","j","k","l","m",
            "n","o","p","q","r","s","t","u","v","w","x","y","z">>
Uppers == <<"A","B","C","D","E","F","G","H","I","J","K","L","M",
            "N","O","P","Q","R","S","T","U","V","W","X","Y","Z">>
Digits == <<"0","1","2","3","4","5","6","7","8","9">>
WhiteSpace == {" ", "\t"}

IndexIn(seq, ch) == CHOOSE i \in DOMAIN seq : seq[i] = ch
IsIn(seq, ch) == \E i \in DOMAIN seq : seq[i] = ch

\* String.prototype.toLowerCase
LowerChar(ch) == IF IsIn(Uppers, ch) THEN Lowers[IndexIn(Uppers, ch)] ELSE ch
ToLowerCase(s) == [i \in DOMAIN s |-> LowerChar(s[i])]

\* String.prototype.trim
RECURSIVE TrimStart(_)
TrimStart(s) ==
    IF s # << >> /\ Head(s) \in WhiteSpace THEN TrimStart(Tail(s)) ELSE s
RECURSIVE TrimEnd(_)
TrimEnd(s) ==
    IF s # << >> /\ s[Len(s)] \in WhiteSpace
    THEN TrimEnd(SubSeq(s, 1, Len(s) - 1)) ELSE s
Trim(s) == TrimEnd(TrimStart(s))

\* String.prototype.startsWith / includes
StartsWith(s, p) == Len(p) <= Len(s) /\ SubSeq(s, 1, Len(p)) = p
Includes(s, sub) ==
    \E i \in 0..(Len(s) - Len(sub)) : SubSeq(s, i + 1, i + Len(sub)) = sub

\* /^\d+$/.test(s)
IsDigitString(s) == s # << >> /\ \A i \in DOMAIN s : IsIn(Digits, s[i])

RECURSIVE DigitsValue(_)
DigitsValue(s) ==
    IF s = << >> THEN 0
    ELSE 10 * DigitsValue(SubSeq(s, 1, Len(s) - 1)) + (IndexIn(Digits, s[Len(s)]) - 1)

RECURSIVE NatToString(_)
NatToString(n) ==
    IF n < 10 THEN << Digits[n + 1] >>
    ELSE Append(NatToString(n \div 10), Digits[(n % 10) + 1])

(***************************************************************************)
(* String.prototype.localeCompare under the default (root) collation:      *)
(* strings differ first by their letters regardless of case (white space   *)
(* and punctuation before digits before letters), and two strings with the *)
(* same letters differ by case only, lower case first.                     *)
(***************************************************************************)
Collation == <<"\t", " ", "-">> \o Digits \o Lowers
PrimaryWeight(ch) == IndexIn(Collation, LowerChar(ch))

RECURSIVE ComparePrimary(_, _)
ComparePrimary(a, b) ==
    IF a = << >> /\ b = << >> THEN 0
    ELSE IF a = << >> THEN -1
    ELSE IF b = << >> THEN 1
    ELSE IF PrimaryWeight(Head(a)) < PrimaryWeight(Head(b)) THEN -1
    ELSE IF PrimaryWeight(Head(a)) > PrimaryWeight(Head(b)) THEN 1
    ELSE ComparePrimary(Tail(a), Tail(b))

RECURSIVE CompareCase(_, _)
CompareCase(a, b) ==
    IF a = << >> \/ b = << >> THEN 0
    ELSE IF Head(a) = Head(b) THEN CompareCase(Tail(a), Tail(b))
    ELSE IF IsIn(Uppers, Head(b)) THEN -1
    ELSE 1

LocaleCompare(a, b) ==
    IF ComparePrimary(a, b) # 0 THEN ComparePrimary(a, b) ELSE CompareCase(a, b)


(***************************************************************************)
(* The strings of the catalogue and of the queries.                        *)
(***************************************************************************)
S_creek_chub == <<"c","r","e","e","k","-","c","h","u","b">>
S_heddon == <<"h","e","d","d","o","n">>
S_pflueger == <<"p","f","l","u","e","g","e","r">>
S_CreekChub == <<"C","r","e","e","k"," ","C","h","u","b">>
S_Heddon == <<"H","e","d","d","o","n">>
S_Pflueger == <<"P","f","l","u","e","g","e","r">>
S_ccbc_00 == <<"c","c","b","c","-","0","0">>
S_CCBC_00 == <<"C","C","B","C","-","0","0">>
S_ccbc_00b == <<"c","c","b","c","-","0","0","b">>
S_ccbc_18 == <<"c","c","b","c","-","1","8">>
S_ccbc_99 == <<"c","c","b","c","-","9","9">>
S_hed_9 == <<"h","e","d","-","9">>
S_Frog == <<"F","r","o","g">>
S_FrogSpot == <<"F","r","o","g"," ","S","p","o","t">>
S_GreenFrog == <<"G","r","e","e","n"," ","F","r","o","g">>
S_Bullfrog == <<"B","u","l","l","f","r","o","g">>
S_frog == <<"f","r","o","g">>
S_pad_Frog == <<" ","F","r","o","g">>
S_12 == <<"1","2">>
S_Y12 == <<"Y","1","2">>
S_3 == <<"3">>
S_700 == <<"7","0","0">>
S_pad_700 == <<" ","7","0","0">>
S_20w == <<"2","0","w">>
S_20W == <<"2","0","W">>
S_Pikie == <<"P","i","k","i","e">>
S_Darter == <<"D","a","r","t","e","r">>
S_Wiggler == <<"W","i","g","g","l","e","r">>
S_Vamp == <<"V","a","m","p">>
S_pikie == <<"p","i","k","i","e">>
S_constructor == <<"c","o","n","s","t","r","u","c","t","o","r">>
S_empty == << >>
S_blank == <<" ", "\t">>

(***************************************************************************)
(* The catalogue entries the documents are written from.  A colour entry   *)
(* of the document has id, name and the optional companyId and pre1925Id;  *)
(* a lure entry has name, number (a JSON number or a JSON string) and the  *)
(* optional colors, rare_colors and pre1925codes (a list of objects, each  *)
(* given by its entries <<colorId, code>>).                                *)
(***************************************************************************)
Color(id, name, companyId, pre1925Id) ==
    [id |-> id, name |-> name, companyId |-> companyId, pre1925Id |-> pre1925Id]

K_Frog == Color(S_ccbc_00, S_Frog, Some(S_12), None)
K_FrogSpot == Color(S_ccbc_00b, S_FrogSpot, Some(S_Y12), Some(<<S_3>>))
K_GreenFrog == Color(S_ccbc_18, S_GreenFrog, None, None)
K_Bullfrog == Color(S_hed_9, S_Bullfrog, Some(S_12), None)

CreekChubColors == {K_Frog, K_FrogSpot, K_GreenFrog}
HeddonColors == <<K_Bullfrog>>

JsonNumber(n) == [isString |-> FALSE, num |-> n, str |-> << >>]
JsonString(s) == [isString |-> TRUE, num |-> 0, str |-> s]

Lure(name, number, colors, rare, codes) ==
    [name |-> name, number |-> number, colors |-> colors,
     rare_colors |-> rare, pre1925codes |-> codes]

L_Pikie == Lure(S_Pikie, JsonNumber(700),
                Some(<<S_ccbc_00, S_ccbc_00b, S_hed_9, S_ccbc_99>>),
                Some(<<S_ccbc_18, S_ccbc_00b>>),
                Some(<< << <<S_ccbc_00b, 5>> >>, << <<S_ccbc_99, 4>> >>,
                        << <<S_ccbc_00b, 6>> >> >>))
L_Darter == Lure(S_Darter, JsonString(S_20w),
                 Some(<<S_ccbc_00, S_ccbc_00b>>), None, None)
L_Wiggler == Lure(S_Wiggler, JsonString(S_700), Some(<< >>), Some(<<S_ccbc_00>>),
                  Some(<< << <<S_ccbc_18, 2>>, <<S_ccbc_00, 1>> >> >>))
L_Vamp == Lure(S_Vamp, JsonNumber(700), Some(<<S_hed_9>>), None, None)

CreekChubLures == {L_Pikie, L_Darter, L_Wiggler}
HeddonLures == <<L_Vamp>>

\* the sequences of at most n distinct elements of S
RECURSIVE Lists(_, _)
Lists(S, n) ==
    IF n = 0 THEN { << >> }
    ELSE { << >> } \cup { <<x>> \o l : x \in S, l \in Lists(S, n - 1) }
Distinct(l) == \A i, j \in DOMAIN l : i # j => l[i] # l[j]
ColorLists == { l \in Lists(CreekChubColors, MaxColors) : Distinct(l) }
LureLists == { l \in Lists(CreekChubLures, MaxLures) : Distinct(l) }

(***************************************************************************)
(* data.json.  The file is missing, is not JSON, or parses to a value:     *)
(* null, or an object with the optional keys manufacturers (its entries in *)
(* document order: key and the producer object) and indexes.               *)
(***************************************************************************)
Producer(key, name, colors, lures) ==
    [key |-> key, name |-> name, colors |-> colors, lures |-> lures]

File(kind, manufacturers, indexes) ==
    [kind |-> kind, manufacturers |-> manufacturers, indexes |-> indexes]

FileMissing == File("missing", None, None)
FileCorrupt == File("corrupt", None, None)
FileNull == File("null", None, None)
FileNoManufacturers == File("object", None, None)
BadFiles == {FileMissing, FileCorrupt, FileNull, FileNoManufacturers}

Manufacturers(colors, lures) ==
    << Producer(S_creek_chub, S_CreekChub, Some(colors), Some(lures)),
       Producer(S_pflueger, S_Pflueger, None, Some(<< >>)),
       Producer(S_heddon, S_Heddon, Some(HeddonColors), Some(HeddonLures)) >>

RECURSIVE Concat(_)
Concat(ls) == IF ls = << >> THEN << >> ELSE Head(ls) \o Concat(Tail(ls))

SelectIds(colors, code) ==
    LET picked == SelectSeq(colors, LAMBDA c : c.companyId = Some(code))
    IN  [i \in DOMAIN picked |-> picked[i].id]

\* the lookup indexes a generator writes for a list of colours
IndexesFor(colors) ==
    [byId |-> Some({ colors[i].id : i \in DOMAIN colors }),
     byCompanyId |->
        Some([code \in { Get(colors[i].companyId) :
                            i \in { j \in DOMAIN colors : IsSome(colors[j].companyId) } }
                |-> SelectIds(colors, code)])]

\* the indexes of an earlier edition of the catalogue: the creek-chub colours
\* only, ccbc-00b still carrying the code 12
OldEdition ==
    << K_Frog, Color(S_ccbc_00b, S_FrogSpot, Some(S_12), None), K_GreenFrog >>

IndexChoices(colors) ==
    { None, Some(IndexesFor(colors \o HeddonColors)), Some(IndexesFor(OldEdition)) }

ColorFiles ==
    UNION { { File("object", Some(Manufacturers(colors, << L_Pikie >>)), idx) :
                idx \in IndexChoices(colors) } : colors \in ColorLists }

(***************************************************************************)
(* Array.prototype.find and Array.prototype.sort.  find is given the set   *)
(* of positions whose element passes the test and returns the first.  sort *)
(* is given the comparator's value for each pair of positions; it is       *)
(* stable: each element is inserted behind the elements that do not sort   *)
(* after it.                                                               *)
(***************************************************************************)
Find(seq, hits) ==
    IF hits = {} THEN None
    ELSE Some(seq[CHOOSE i \in hits : \A j \in hits : i <= j])

SortWith(results, cmp) ==
    LET Insert(sorted, x) ==
            LET k == Cardinality({ i \in DOMAIN sorted : cmp[sorted[i]][x] <= 0 })
            IN  SubSeq(sorted, 1, k) \o << x >> \o SubSeq(sorted, k + 1, Len(sorted))
        firstN[n \in 0..Len(results)] ==
            IF n = 0 THEN << >> ELSE Insert(firstN[n - 1], n)
        order == firstN[Len(results)]
    IN  [i \in DOMAIN results |-> results[order[i]]]

(***************************************************************************)
(* The identity of an array a call works on or returns: the cache array of *)
(* the provider itself, or an array the call made.  filter, map, an array  *)
(* literal and a spread make a new array; sort sorts its receiver in place *)
(* and returns it.                                                         *)
(***************************************************************************)
TheCache == "cache"
Made == "made"
Filtered(array) == Made
Sorted(array) == array

\* a faulty spread: return this.colorCache, the cache array itself
SpreadShared(array) == array

\* [...this.colorCache]
Spread(array) == Made

\* the array search returns: results.sort(...) of results = cache.filter(...)
\* after the substring scan, an array made by the call on every other path
SearchArray(steps) ==
    IF steps # << >> /\ steps[Len(steps)] = "scan"
    THEN Sorted(Filtered(TheCache))
    ELSE Made

\* the cache after search: sorted in place if the array handed to sort is the
\* cache array
CacheAfterSearch(cache, r) ==
    IF SearchArray(r.steps) = TheCache THEN r.result ELSE cache

(***************************************************************************)
(* ColorSearchProvider                                                     *)
(***************************************************************************)
\* the parsed value of this.database after the catch branch: null
NullDatabase == FileNull

ColorData(color, manufacturerId, manufacturer) ==
    [id |-> color.id, name |-> color.name, companyId |-> color.companyId,
     pre1925Id |-> color.pre1925Id,
     manufacturerId |-> manufacturerId, manufacturerName |-> manufacturer.name]

\* buildColorCache: the new value of colorCache
BuildColorCache(database, cache) ==
    IF ~IsSome(database.manufacturers) THEN cache
    ELSE LET entries == Get(database.manufacturers)
         IN  Concat([i \in DOMAIN entries |->
                IF ~IsSome(entries[i].colors) THEN << >>
                ELSE LET colors == Get(entries[i].colors)
                     IN  [j \in DOMAIN colors |->
                            ColorData(colors[j], entries[i].key, entries[i])]])

\* loadDatabase: the new values of database and colorCache
ColorLoadDatabase(file, cache) ==
    IF file.kind \in {"missing", "corrupt"}
    THEN [database |-> NullDatabase, cache |-> << >>]
    ELSE [database |-> file, cache |-> BuildColorCache(file, cache)]

\* the filter of the fuzzy search
ColorMatches(color, lowerQuery) ==
    \/ Includes(ToLowerCase(color.id), lowerQuery)
    \/ Includes(ToLowerCase(color.name), lowerQuery)
    \/ IsSome(color.companyId) /\ Includes(ToLowerCase(Get(color.companyId)), lowerQuery)
    \/ IsSome(color.pre1925Id) /\
         \E i \in DOMAIN Get(color.pre1925Id) :
            Includes(ToLowerCase(Get(color.pre1925Id)[i]), lowerQuery)
    \/ Includes(ToLowerCase(color.manufacturerName), lowerQuery)

\* a faulty comparator: the one of results.sort without its starts-with tier
ColorCompareNoPrefix(a, b, lowerQuery) ==
    LET aExactName == ToLowerCase(a.name) = lowerQuery
        bExactName == ToLowerCase(b.name) = lowerQuery
    IN  IF aExactName /\ ~bExactName THEN -1
        ELSE IF ~aExactName /\ bExactName THEN 1
        ELSE LocaleCompare(a.name, b.name)

\* the comparator of results.sort
ColorCompare(a, b, lowerQuery) ==
    LET aExactName == ToLowerCase(a.name) = lowerQuery
        bExactName == ToLowerCase(b.name) = lowerQuery
        aStartsWith == StartsWith(ToLowerCase(a.name), lowerQuery)
        bStartsWith == StartsWith(ToLowerCase(b.name), lowerQuery)
    IN  IF aExactName /\ ~bExactName THEN -1
        ELSE IF ~aExactName /\ bExactName THEN 1
        ELSE IF aStartsWith /\ ~bStartsWith THEN -1
        ELSE IF ~aStartsWith /\ bStartsWith THEN 1
        ELSE LocaleCompare(a.name, b.name)

\* a faulty lowerQuery: the query lower-cased and not trimmed
LowerQueryUntrimmed(query) == ToLowerCase(query)

\* const lowerQuery = query.toLowerCase().trim()
LowerQuery(query) == Trim(ToLowerCase(query))

\* the property names a parsed JSON object answers without holding them as
\* keys: those of Object.prototype (of the queries of the model, constructor)
InheritedKeys == { S_constructor }

\* this.database?.indexes?.byId / byCompanyId
IndexById(database) ==
    IF IsSome(database.indexes) THEN Get(database.indexes).byId ELSE None
IndexByCompanyId(database) ==
    IF IsSome(database.indexes) THEN Get(database.indexes).byCompanyId ELSE None

\* a faulty search: a key the indexes hold with no colour behind it in the
\* cache ends the search with nothing found
ColorSearchHardMiss(database, cache, query) ==
    LET lowerQuery == LowerQuery(query)
        byId == IndexById(database)
        byCompanyId == IndexByCompanyId(database)
        exactMatch ==
            Find(cache, { i \in DOMAIN cache : ToLowerCase(cache[i].id) = lowerQuery })
        listed == Get(byCompanyId)[query]
        companyIdMatches ==
            Concat([k \in DOMAIN listed |->
                        Find(cache, { i \in DOMAIN cache : cache[i].id = listed[k] })])
        results == SelectSeq(cache, LAMBDA c : ColorMatches(c, lowerQuery))
    IN  IF lowerQuery = << >>
        THEN [result |-> << >>, steps |-> << >>, thrown |-> FALSE]
        ELSE IF IsSome(byId) /\ lowerQuery \in Get(byId) \cup InheritedKeys
        THEN [result |-> exactMatch, steps |-> <<"byId">>, thrown |-> FALSE]
        ELSE IF /\ IsSome(byCompanyId)
                /\ query \notin DOMAIN Get(byCompanyId)
                /\ query \in InheritedKeys
        THEN [result |-> << >>, steps |-> <<"byId", "byCompanyId">>, thrown |-> TRUE]
        ELSE IF IsSome(byCompanyId) /\ query \in DOMAIN Get(byCompanyId)
        THEN [result |-> companyIdMatches, steps |-> <<"byId", "byCompanyId">>,
              thrown |-> FALSE]
        ELSE [result |->
                SortWith(results,
                         [i \in DOMAIN results |-> [j \in DOMAIN results |->
                            ColorCompare(results[i], results[j], lowerQuery)]]),
              steps |-> <<"byId", "byCompanyId", "scan">>, thrown |-> FALSE]

\* search: what it returns, the strategies it went through, and whether it
\* ended by throwing a TypeError
ColorSearch(database, cache, query) ==
    LET lowerQuery == LowerQuery(query)
        byId == IndexById(database)
        byCompanyId == IndexByCompanyId(database)
        exactMatch ==
            Find(cache, { i \in DOMAIN cache : ToLowerCase(cache[i].id) = lowerQuery })
        listed == Get(byCompanyId)[query]
        companyIdMatches ==
            Concat([k \in DOMAIN listed |->
                        Find(cache, { i \in DOMAIN cache : cache[i].id = listed[k] })])
        results == SelectSeq(cache, LAMBDA c : ColorMatches(c, lowerQuery))
    IN  IF lowerQuery = << >>
        THEN [result |-> << >>, steps |-> << >>, thrown |-> FALSE]
        ELSE IF /\ IsSome(byId)
                /\ lowerQuery \in Get(byId) \cup InheritedKeys
                /\ IsSome(exactMatch)
        THEN [result |-> << Get(exactMatch) >>, steps |-> <<"byId">>, thrown |-> FALSE]
        ELSE IF /\ IsSome(byCompanyId)
                /\ query \notin DOMAIN Get(byCompanyId)
                /\ query \in InheritedKeys
        THEN \* byCompanyId[query] is a function of Object.prototype: it has no map
             [result |-> << >>, steps |-> <<"byId", "byCompanyId">>, thrown |-> TRUE]
        ELSE IF /\ IsSome(byCompanyId)
                /\ query \in DOMAIN Get(byCompanyId)
                /\ companyIdMatches # << >>
        THEN [result |-> companyIdMatches, steps |-> <<"byId", "byCompanyId">>,
              thrown |-> FALSE]
        ELSE [result |->
                SortWith(results,
                         [i \in DOMAIN results |-> [j \in DOMAIN results |->
                            ColorCompare(results[i], results[j], lowerQuery)]]),
              steps |-> <<"byId", "byCompanyId", "scan">>, thrown |-> FALSE]

\* getById, getByCompanyId, getAllColors
ColorGetById(cache, id) ==
    Find(cache, { i \in DOMAIN cache : cache[i].id = id })
ColorGetByCompanyId(cache, companyId) ==
    SelectSeq(cache, LAMBDA c : c.companyId = Some(companyId))
ColorGetAll(cache) == cache

(***************************************************************************)
(* LureSearchProvider                                                      *)
(***************************************************************************)
LureData(lure, manufacturerId, manufacturer) ==
    [name |-> lure.name, number |-> lure.number, colors |-> lure.colors,
     rare_colors |-> lure.rare_colors, pre1925codes |-> lure.pre1925codes,
     manufacturerId |-> manufacturerId, manufacturerName |-> manufacturer.name]

\* buildLureCache: the new value of lureCache
BuildLureCache(database, cache) ==
    IF ~IsSome(database.manufacturers) THEN cache
    ELSE LET entries == Get(database.manufacturers)
         IN  Concat([i \in DOMAIN entries |->
                IF ~IsSome(entries[i].lures) \/ Len(Get(entries[i].lures)) = 0 THEN << >>
                ELSE LET lures == Get(entries[i].lures)
                     IN  [j \in DOMAIN lures |->
                            LureData(lures[j], entries[i].key, entries[i])]])

\* loadDatabase: the new values of database and lureCache
LureLoadDatabase(file, cache) ==
    IF file.kind \in {"missing", "corrupt"}
    THEN [database |-> NullDatabase, cache |-> << >>]
    ELSE [database |-> file, cache |-> BuildLureCache(file, cache)]

\* number.toString()
NumberToString(number) ==
    IF number.isString THEN number.str ELSE NatToString(number.num)

\* the filter of the fuzzy search
LureMatches(lure, query, lowerQuery) ==
    \/ Includes(ToLowerCase(lure.name), lowerQuery)
    \/ Includes(NumberToString(lure.number), query)
    \/ Includes(ToLowerCase(lure.manufacturerName), lowerQuery)

\* the comparator of results.sort
LureCompare(a, b, lowerQuery) ==
    LET aExactName == ToLowerCase(a.name) = lowerQuery
        bExactName == ToLowerCase(b.name) = lowerQuery
        aStartsWith == StartsWith(ToLowerCase(a.name), lowerQuery)
        bStartsWith == StartsWith(ToLowerCase(b.name), lowerQuery)
    IN  IF aExactName /\ ~bExactName THEN -1
        ELSE IF ~aExactName /\ bExactName THEN 1
        ELSE IF aStartsWith /\ ~bStartsWith THEN -1
        ELSE IF ~aStartsWith /\ bStartsWith THEN 1
        ELSE LocaleCompare(a.name, b.name)

\* search: what it returns, and the strategies it went through
LureSearch(cache, query) ==
    LET lowerQuery == LowerQuery(query)
        numberMatch == SelectSeq(cache, LAMBDA l : NumberToString(l.number) = query)
        results == SelectSeq(cache, LAMBDA l : LureMatches(l, query, lowerQuery))
    IN  IF lowerQuery = << >>
        THEN [result |-> << >>, steps |-> << >>]
        ELSE IF Len(numberMatch) > 0
        THEN [result |-> numberMatch, steps |-> <<"number">>]
        ELSE [result |->
                SortWith(results,
                         [i \in DOMAIN results |-> [j \in DOMAIN results |->
                            LureCompare(results[i], results[j], lowerQuery)]]),
              steps |-> <<"number", "scan">>]

\* getByName, getByNumber, getAllLures
LureGetByName(cache, name) ==
    Find(cache, { i \in DOMAIN cache : ToLowerCase(cache[i].name) = ToLowerCase(name) })
LureGetByNumber(cache, number) ==
    SelectSeq(cache, LAMBDA l : NumberToString(l.number) = NumberToString(number))
LureGetAll(cache) == cache

(***************************************************************************)
(* extension.ts: the colour lookup and the colour lines of the lure        *)
(* details view.                                                           *)
(***************************************************************************)
EmptyLookup == [id \in {} |-> None]

ColorInfo(name, pre1925Id, companyId) ==
    [name |-> name, pre1925Id |-> pre1925Id, companyId |-> companyId]

\* buildColorLookup: the new value of colorLookup
BuildColorLookup(file, lookup) ==
    IF file.kind \in {"missing", "corrupt", "null"} \/ ~IsSome(file.manufacturers)
    THEN lookup
    ELSE LET entries == Get(file.manufacturers)
             entry == Find(entries, { i \in DOMAIN entries : entries[i].key = S_creek_chub })
             colors == IF IsSome(entry) /\ IsSome(Get(entry).colors)
                       THEN Get(Get(entry).colors) ELSE << >>
             ids == { colors[i].id : i \in DOMAIN colors }
             last(id) == colors[CHOOSE i \in DOMAIN colors :
                            /\ colors[i].id = id
                            /\ \A j \in (i + 1)..Len(colors) : colors[j].id # id]
         IN  [id \in DOMAIN lookup \cup ids |->
                IF id \in ids
                THEN ColorInfo(last(id).name, last(id).pre1925Id, last(id).companyId)
                ELSE lookup[id]]

\* getColorInfo
GetColorInfo(lookup, colorId) ==
    IF colorId \in DOMAIN lookup THEN lookup[colorId]
    ELSE ColorInfo(colorId, None, None)

\* a JavaScript number: an integer or NaN
Num(n) == [nan |-> FALSE, val |-> n]
NaN == [nan |-> TRUE, val |-> 0]

\* Number(x) of a JSON number or a string: white space alone is 0, decimal
\* digits are their value, any other string of the catalogue is NaN
ToNumber(number) ==
    IF ~number.isString THEN Num(number.num)
    ELSE IF Trim(number.str) = << >> THEN Num(0)
    ELSE IF IsDigitString(Trim(number.str)) THEN Num(DigitsValue(Trim(number.str)))
    ELSE NaN

\* Math.floor(Number(lure.number) / 100) * 100 + Number(info.companyId)
CalculatedCode(number, companyId) ==
    LET n == ToNumber(number)
        c == ToNumber(JsonString(companyId))
    IN  IF n.nan \/ c.nan THEN NaN ELSE Num((n.val \div 100) * 100 + c.val)

\* the map pre1925Map of getLureDetailsHtml, read at colour id c
Pre1925Code(lure, c) ==
    LET pairs == IF IsSome(lure.pre1925codes) THEN Concat(Get(lure.pre1925codes)) ELSE << >>
        hits == { i \in DOMAIN pairs : pairs[i][1] = c }
    IN  IF hits = {} THEN None
        ELSE Some(pairs[CHOOSE i \in hits : \A j \in hits : j <= i][2])

\* the derived lure code of one colour line
LureCode(lure, info) ==
    IF IsSome(info.companyId) /\ IsDigitString(Get(info.companyId))
    THEN Some(CalculatedCode(lure.number, Get(info.companyId)))
    ELSE None

\* a faulty legacy code: the colour's own pre1925Id list stands in when the
\* lure has no entry
LegacyCodeOrGeneric(lure, info, c) ==
    IF IsSome(Pre1925Code(lure, c)) THEN Pre1925Code(lure, c)
    ELSE IF IsSome(info.pre1925Id) /\ Len(Get(info.pre1925Id)) > 0
    THEN Some(DigitsValue(Get(info.pre1925Id)[1]))
    ELSE None

\* the legacy code of one colour line
LegacyCode(lure, info, c) == Pre1925Code(lure, c)

\* one <li> of the colour lists: the id, the name, the lure code, the pre-1925 code
ColorLine(lure, lookup, c) ==
    LET info == GetColorInfo(lookup, c)
    IN  [colorId |-> c, name |-> info.name,
         lureCode |-> LureCode(lure, info),
         pre1925 |-> LegacyCode(lure, info, c)]

ColorLines(lure, lookup, list) ==
    IF IsSome(list) /\ Len(Get(list)) > 0
    THEN [i \in DOMAIN Get(list) |-> ColorLine(lure, lookup, Get(list)[i])]
    ELSE << >>

\* getLureDetailsHtml: the lines under Available Colors and under Rare Colors
GetLureDetails(lure, lookup) ==
    [colors |-> ColorLines(lure, lookup, lure.colors),
     rare |-> ColorLines(lure, lookup, lure.rare_colors)]

(***************************************************************************)
(* The files and the queries of the model.                                 *)
(***************************************************************************)
S_w == <<"w">>
S_W == <<"W">>
S_creek == <<"c","r","e","e","k">>

LureFiles ==
    { File("object", Some(Manufacturers(<< K_Frog >>, lures)), None) :
        lures \in LureLists }

ExtensionFiles ==
    { File("object", Some(Manufacturers(colors, lures)), None) :
        colors \in ColorLists, lures \in LureLists }

ColorQueries ==
    {S_ccbc_00, S_CCBC_00, S_12, S_Y12, S_frog, S_pad_Frog, S_constructor,
     S_empty, S_blank}
LureQueries ==
    {S_700, S_pad_700, S_20w, S_20W, S_pikie, S_w, S_W, S_creek, S_empty, S_blank}

(***************************************************************************)
(* State.  op is the last call and what it returned; colorLoads and        *)
(* lureLoads record, per index, whether the file read by the most recent   *)
(* load had no usable content (failed), how many reload() calls in a row   *)
(* read the same content (n, counted up to 2), and the cache the first of  *)
(* them left (first).                                                      *)
(***************************************************************************)
NoOp == [kind |-> "none", query |-> << >>, result |-> << >>, steps |-> << >>]

\* a file the loader has nothing to build from
LoadFails(file) == file.kind # "object" \/ ~IsSome(file.manufacturers)

Loads(failed) == [failed |-> failed, n |-> 0, first |-> << >>]
Reloaded(loads, unchanged, file, cache) ==
    [failed |-> LoadFails(file),
     n |-> IF loads.n > 0 /\ unchanged THEN 2 ELSE 1,
     first |-> IF loads.n > 0 /\ unchanged THEN loads.first ELSE cache]

\* the field initialisers: database = null, the caches [], colorLookup = new Map()
ColorUnbuilt ==
    /\ colorDatabase = NullDatabase
    /\ colorCache = << >>
    /\ colorLoads = Loads(TRUE)
LureUnbuilt ==
    /\ lureDatabase = NullDatabase
    /\ lureCache = << >>
    /\ lureLoads = Loads(TRUE)

\* new ColorSearchProvider(dataPath)
ColorConstructed(file) ==
    LET r == ColorLoadDatabase(file, << >>)
    IN  /\ colorDatabase = r.database
        /\ colorCache = r.cache
        /\ colorLoads = Loads(LoadFails(file))

\* new LureSearchProvider(dataPath)
LureConstructed(file) ==
    LET r == LureLoadDatabase(file, << >>)
    IN  /\ lureDatabase = r.database
        /\ lureCache = r.cache
        /\ lureLoads = Loads(LoadFails(file))

\* a ColorSearchProvider on its own
InitColor ==
    /\ doc \in ColorFiles \cup BadFiles
    /\ ColorConstructed(doc)
    /\ LureUnbuilt
    /\ colorLookup = EmptyLookup
    /\ op = NoOp

\* a LureSearchProvider on its own
InitLure ==
    /\ doc \in LureFiles \cup BadFiles
    /\ ColorUnbuilt
    /\ LureConstructed(doc)
    /\ colorLookup = EmptyLookup
    /\ op = NoOp

\* activate(): both providers and the colour lookup, from the same file
InitExtension ==
    /\ doc \in ExtensionFiles \cup BadFiles
    /\ ColorConstructed(doc)
    /\ LureConstructed(doc)
    /\ colorLookup = BuildColorLookup(doc, EmptyLookup)
    /\ op = NoOp

(***************************************************************************)
(* Steps.                                                                  *)
(***************************************************************************)
\* ColorSearchProvider.reload(), data.json holding file at that moment
ColorReload(file) ==
    LET r == ColorLoadDatabase(file, colorCache)
    IN  /\ doc' = file
        /\ colorDatabase' = r.database
        /\ colorCache' = r.cache
        /\ colorLoads' = Reloaded(colorLoads, file = doc, file, r.cache)
        /\ op' = NoOp
        /\ UNCHANGED <<lureDatabase, lureCache, lureLoads, colorLookup>>

\* ColorSearchProvider.search(query)
ColorSearchCall(query) ==
    LET r == ColorSearch(colorDatabase, colorCache, query)
    IN  /\ op' = [kind |-> "colorSearch", query |-> query,
                  result |-> r.result, steps |-> r.steps, thrown |-> r.thrown,
                  array |-> SearchArray(r.steps), edited |-> FALSE]
        /\ colorCache' = CacheAfterSearch(colorCache, r)
        /\ UNCHANGED <<doc, colorDatabase, colorLoads,
                       lureDatabase, lureCache, lureLoads, colorLookup>>

\* LureSearchProvider.reload(), data.json holding file at that moment
LureReload(file) ==
    LET r == LureLoadDatabase(file, lureCache)
    IN  /\ doc' = file
        /\ lureDatabase' = r.database
        /\ lureCache' = r.cache
        /\ lureLoads' = Reloaded(lureLoads, file = doc, file, r.cache)
        /\ op' = NoOp
        /\ UNCHANGED <<colorDatabase, colorCache, colorLoads, colorLookup>>

\* LureSearchProvider.search(query)
LureSearchCall(query) ==
    LET r == LureSearch(lureCache, query)
    IN  /\ op' = [kind |-> "lureSearch", query |-> query,
                  result |-> r.result, steps |-> r.steps,
                  array |-> SearchArray(r.steps), edited |-> FALSE]
        /\ lureCache' = CacheAfterSearch(lureCache, r)
        /\ UNCHANGED <<doc, colorDatabase, colorCache, colorLoads,
                       lureDatabase, lureLoads, colorLookup>>

\* showLureResults(searchTerm), the user accepting the i-th item of the pick
\* list, showLureDetails of the first result carrying that item's name
ShowLureDetails(searchTerm, i) ==
    \E results \in { LureSearch(lureCache, searchTerm).result } :
        /\ searchTerm # << >>
        /\ i \in DOMAIN results
        /\ \E lure \in { Get(Find(results, { j \in DOMAIN results :
                                                    results[j].name = results[i].name })) } :
              op' = [kind |-> "lureDetails", query |-> searchTerm, lure |-> lure,
                     result |-> GetLureDetails(lure, colorLookup), steps |-> << >>]
        /\ UNCHANGED <<doc, colorDatabase, colorCache, colorLoads,
                       lureDatabase, lureCache, lureLoads, colorLookup>>

\* the calls on a ColorSearchProvider on its own
NextColor ==
    \/ \E file \in ColorFiles \cup BadFiles : LureUnbuilt /\ ColorReload(file)
    \/ \E query \in ColorQueries : LureUnbuilt /\ ColorSearchCall(query)

\* the calls on a LureSearchProvider on its own
NextLure ==
    \/ \E file \in LureFiles \cup BadFiles : ColorUnbuilt /\ LureReload(file)
    \/ \E query \in LureQueries : ColorUnbuilt /\ LureSearchCall(query)

\* the lure details view of the activated extension
NextExtension ==
    \E query \in LureQueries : \E i \in 1..Len(lureCache) : ShowLureDetails(query, i)

\* one search provider, of either kind, under construction, reload and search
Init == InitColor \/ InitLure
Next == NextColor \/ NextLure
Spec == Init /\ [][Next]_vars

\* the extension after activate(), the user opening lure details
SpecExtension == InitExtension /\ [][NextExtension]_vars

(***************************************************************************)
(* The read-only methods of the providers, and a caller that edits the     *)
(* array a call handed back.                                               *)
(***************************************************************************)
ColorIds == {S_ccbc_00, S_CCBC_00, S_hed_9, S_ccbc_99}
CompanyIds == {S_12, S_Y12, S_3}
LureNames == {S_Pikie, S_pikie, S_Vamp, S_Frog}
LureNumbers == {JsonNumber(700), JsonString(S_700), JsonString(S_20w), JsonString(S_20W)}

Returned(kind, argument, result, array) ==
    [kind |-> kind, query |-> argument, result |-> result, steps |-> << >>,
     array |-> array, edited |-> FALSE]

\* ColorSearchProvider.getById(id): the colour found, if any
ColorGetByIdCall(id) ==
    /\ op' = Returned("colorGetById", id, ColorGetById(colorCache, id), Made)
    /\ UNCHANGED <<doc, colorDatabase, colorCache, colorLoads,
                   lureDatabase, lureCache, lureLoads, colorLookup>>

\* ColorSearchProvider.getByCompanyId(companyId)
ColorGetByCompanyIdCall(companyId) ==
    /\ op' = Returned("colorGetByCompanyId", companyId,
                      ColorGetByCompanyId(colorCache, companyId), Filtered(TheCache))
    /\ UNCHANGED <<doc, colorDatabase, colorCache, colorLoads,
                   lureDatabase, lureCache, lureLoads, colorLookup>>

\* ColorSearchProvider.getAllColors()
ColorGetAllCall ==
    /\ op' = Returned("colorGetAll", << >>, ColorGetAll(colorCache), Spread(TheCache))
    /\ UNCHANGED <<doc, colorDatabase, colorCache, colorLoads,
                   lureDatabase, lureCache, lureLoads, colorLookup>>

\* LureSearchProvider.getByName(name): the lure found, if any
LureGetByNameCall(name) ==
    /\ op' = Returned("lureGetByName", name, LureGetByName(lureCache, name), Made)
    /\ UNCHANGED <<doc, colorDatabase, colorCache, colorLoads,
                   lureDatabase, lureCache, lureLoads, colorLookup>>

\* LureSearchProvider.getByNumber(number)
LureGetByNumberCall(number) ==
    /\ op' = Returned("lureGetByNumber", NumberToString(number),
                      LureGetByNumber(lureCache, number), Filtered(TheCache))
    /\ UNCHANGED <<doc, colorDatabase, colorCache, colorLoads,
                   lureDatabase, lureCache, lureLoads, colorLookup>>

\* LureSearchProvider.getAllLures()
LureGetAllCall ==
    /\ op' = Returned("lureGetAll", << >>, LureGetAll(lureCache), Spread(TheCache))
    /\ UNCHANGED <<doc, colorDatabase, colorCache, colorLoads,
                   lureDatabase, lureCache, lureLoads, colorLookup>>

\* the calls that hand an array back
ColorArrayKinds == {"colorSearch", "colorGetByCompanyId", "colorGetAll"}
LureArrayKinds == {"lureSearch", "lureGetByNumber", "lureGetAll"}

\* what a caller does to an array: push(record), pop(), reverse()
Edits == {"push", "pop", "reverse"}
StrayColor ==
    ColorData(Color(S_ccbc_99, S_ccbc_99, None, None), S_creek_chub, [name |-> S_CreekChub])
StrayLure ==
    LureData(Lure(S_pikie, JsonNumber(0), None, None, None), S_creek_chub,
             [name |-> S_CreekChub])
Edit(edit, array, record) ==
    IF edit = "push" THEN Append(array, record)
    ELSE IF edit = "pop" THEN SubSeq(array, 1, Len(array) - 1)
    ELSE [i \in DOMAIN array |-> array[Len(array) + 1 - i]]

\* the caller edits, once, the array the last call returned; the cache is
\* edited with it when that array is the cache array
CallerEdits(edit) ==
    /\ op.kind \in ColorArrayKinds \cup LureArrayKinds
    /\ ~op.edited
    /\ \E record \in { IF op.kind \in ColorArrayKinds THEN StrayColor ELSE StrayLure } :
          /\ op' = [op EXCEPT !.result = Edit(edit, @, record), !.edited = TRUE]
          /\ colorCache' =
                IF op.kind \in ColorArrayKinds /\ op.array = TheCache
                THEN Edit(edit, colorCache, record) ELSE colorCache
          /\ lureCache' =
                IF op.kind \in LureArrayKinds /\ op.array = TheCache
                THEN Edit(edit, lureCache, record) ELSE lureCache
    /\ UNCHANGED <<doc, colorDatabase, colorLoads, lureDatabase, lureLoads, colorLookup>>

\* the read-only calls on a ColorSearchProvider on its own
NextColorQueries ==
    \/ \E query \in ColorQueries : LureUnbuilt /\ ColorSearchCall(query)
    \/ \E id \in ColorIds : LureUnbuilt /\ ColorGetByIdCall(id)
    \/ \E companyId \in CompanyIds : LureUnbuilt /\ ColorGetByCompanyIdCall(companyId)
    \/ LureUnbuilt /\ ColorGetAllCall

\* the read-only calls on a LureSearchProvider on its own
NextLureQueries ==
    \/ \E query \in LureQueries : ColorUnbuilt /\ LureSearchCall(query)
    \/ \E name \in LureNames : ColorUnbuilt /\ LureGetByNameCall(name)
    \/ \E number \in LureNumbers : ColorUnbuilt /\ LureGetByNumberCall(number)
    \/ ColorUnbuilt /\ LureGetAllCall

NextCaller == \E edit \in Edits : CallerEdits(edit)

\* one search provider, of either kind, after construction: queried, its
\* results edited by the caller
NextQueries == NextColorQueries \/ NextLureQueries \/ NextCaller
SpecQueries == Init /\ [][NextQueries]_vars

(***************************************************************************)
(* Properties.                                                             *)
(***************************************************************************)
Elems(seq) == { seq[i] : i \in DOMAIN seq }
Count(seq, x) == Cardinality({ i \in DOMAIN seq : seq[i] = x })
IsColorSearch == op.kind = "colorSearch"
IsLureSearch == op.kind = "lureSearch"
IsLureDetails == op.kind = "lureDetails"
ByScan == op.steps # << >> /\ op.steps[Len(op.steps)] = "scan"
Blank(s) == \A i \in DOMAIN s : s[i] \in WhiteSpace

\* C1: a colour search whose query equals, up to letter case, the id of a
\* cached colour returns exactly that colour and nothing else, with or
\* without the indexes block.
C1_ExactId ==
    IsColorSearch =>
        \A c \in Elems(colorCache) :
            ToLowerCase(op.query) = ToLowerCase(c.id) => op.result = << c >>

\* C2: a colour search whose query equals no colour id but is the companyId of
\* cached colours returns exactly the cached colours carrying that companyId,
\* each once, whatever the indexes block holds.
C2_CompanyCode ==
    LET sameCode == { c \in Elems(colorCache) : c.companyId = Some(op.query) }
    IN  ( /\ IsColorSearch
          /\ \A c \in Elems(colorCache) : ToLowerCase(c.id) # ToLowerCase(op.query)
          /\ sameCode # {} )
        => /\ Elems(op.result) = sameCode
           /\ Len(op.result) = Cardinality(sameCode)

\* C3: when the most recent load of an index read a file that is missing, not
\* parseable or without the producer mapping, the cache of that index is empty
\* and a search on it returns the empty sequence.
C3_FailedLoadEmpties ==
    /\ colorLoads.failed =>
          colorCache = << >> /\ (IsColorSearch => op.result = << >>)
    /\ lureLoads.failed =>
          lureCache = << >> /\ (IsLureSearch => op.result = << >>)

\* the order of names the ranking is stated in: letter case set aside, one
\* character after the other by character code (tab, space, hyphen, the
\* digits, the letters)
CharCodes == <<"\t", " ", "-">> \o Digits \o Lowers
CharCode(ch) == IndexIn(CharCodes, LowerChar(ch))
NameLeq(a, b) ==
    \/ \E k \in 1..Len(a) :
          /\ k <= Len(b)
          /\ \A i \in 1..(k - 1) : CharCode(a[i]) = CharCode(b[i])
          /\ CharCode(a[k]) < CharCode(b[k])
    \/ /\ Len(a) <= Len(b)
       /\ \A i \in 1..Len(a) : CharCode(a[i]) = CharCode(b[i])

NameIs(r, q) == ToLowerCase(r.name) = q
NameBegins(r, q) == StartsWith(ToLowerCase(r.name), q)

\* the result of the last search is ranked for the query text q
RankedFor(q) ==
    \A i, j \in DOMAIN op.result :
        i < j =>
            LET a == op.result[i]
                b == op.result[j]
            IN  /\ NameIs(b, q) => NameIs(a, q)
                /\ (~NameIs(a, q) /\ ~NameIs(b, q) /\ NameBegins(b, q)) => NameBegins(a, q)
                /\ (NameIs(a, q) <=> NameIs(b, q)) /\ (NameBegins(a, q) <=> NameBegins(b, q))
                      => NameLeq(a.name, b.name)

\* the records of the cache that pass the substring scan of the last search
ScanMatches ==
    IF IsColorSearch
    THEN SelectSeq(colorCache, LAMBDA c : ColorMatches(c, Trim(ToLowerCase(op.query))))
    ELSE SelectSeq(lureCache,
                   LAMBDA l : LureMatches(l, op.query, Trim(ToLowerCase(op.query))))

ResultIsPermutationOfMatches ==
    /\ Len(op.result) = Len(ScanMatches)
    /\ \A x \in Elems(ScanMatches) \cup Elems(op.result) :
          Count(op.result, x) = Count(ScanMatches, x)

\* C4 as stated: the substring-scan result of either index is ranked by name
\* against the query as typed, letter case aside (names equal to the query,
\* then names starting with it, then the names in ascending order), and is a
\* permutation of the substring matches.
C4_RankedForQueryAsTyped ==
    ((IsColorSearch \/ IsLureSearch) /\ ByScan) =>
        /\ RankedFor(ToLowerCase(op.query))
        /\ ResultIsPermutationOfMatches

\* C4 amended: the substring-scan result of either index is ranked by name
\* against the query with its surrounding white space removed, letter case
\* aside (names equal to it, then names starting with it, then the names in
\* ascending order), and is a permutation of the substring matches.
C4_RankedForTrimmedQuery ==
    ((IsColorSearch \/ IsLureSearch) /\ ByScan) =>
        /\ RankedFor(Trim(ToLowerCase(op.query)))
        /\ ResultIsPermutationOfMatches

\* a padded query ranked: a name equal to the trimmed query, a name starting
\* with it and a name only containing it, in another order than the cache's
C4_Witness ==
    /\ IsColorSearch /\ ByScan
    /\ op.query # Trim(op.query)
    /\ op.result # ScanMatches
    /\ \E i, j, k \in DOMAIN op.result :
          /\ i < j /\ j < k
          /\ NameIs(op.result[i], Trim(ToLowerCase(op.query)))
          /\ ~NameIs(op.result[j], Trim(ToLowerCase(op.query)))
          /\ NameBegins(op.result[j], Trim(ToLowerCase(op.query)))
          /\ ~NameBegins(op.result[k], Trim(ToLowerCase(op.query)))

\* C5: a lure search whose query, lower-cased, is the string form of the
\* number of a cached lure returns a single lure, one carrying that number,
\* without the substring scan.
C5_ExactNumber ==
    ( /\ IsLureSearch
      /\ \E l \in Elems(lureCache) : NumberToString(l.number) = ToLowerCase(op.query) )
    => /\ Len(op.result) = 1
       /\ NumberToString(op.result[1].number) = ToLowerCase(op.query)
       /\ ~ByScan

\* the flattening of a file: the colours (the lures) of its producers in
\* document order, nothing for a file without the producer mapping
FlatColors(file) == IF LoadFails(file) THEN << >> ELSE BuildColorCache(file, << >>)
FlatLures(file) == IF LoadFails(file) THEN << >> ELSE BuildLureCache(file, << >>)

\* C8: after reload() the cache is the flattening of the file read, whatever
\* it held before, and a second reload() of the unchanged file leaves the
\* cache the first one left.
C8_ReloadIdempotent ==
    /\ colorLoads.n >= 1 => colorCache = FlatColors(doc)
    /\ colorLoads.n = 2 => colorCache = colorLoads.first
    /\ lureLoads.n >= 1 => lureCache = FlatLures(doc)
    /\ lureLoads.n = 2 => lureCache = lureLoads.first

\* C9: a search of either index with an empty or white-space-only query
\* returns the empty sequence and goes through no lookup or match strategy.
C9_BlankQuery ==
    ((IsColorSearch \/ IsLureSearch) /\ Blank(op.query)) =>
        op.result = << >> /\ op.steps = << >>

\* a white-space-only search on a filled colour cache whose file carries the
\* lookup indexes
C9_Witness ==
    /\ IsColorSearch
    /\ op.query # << >> /\ Blank(op.query)
    /\ colorCache # << >>
    /\ IsSome(IndexById(colorDatabase))
    /\ op.result = << >>

\* the colour lines of the details view last shown
Lines == Elems(op.result.colors) \cup Elems(op.result.rare)
Cached(id) == { c \in Elems(colorCache) : c.id = id }

\* C6: every colour line of the details view shows the name of the cached
\* colour carrying the line's id, of whatever producer, and the raw id when no
\* cached colour carries it.
C6_ResolvedName ==
    IsLureDetails =>
        \A line \in Lines :
            /\ \A c \in Cached(line.colorId) : line.name = c.name
            /\ Cached(line.colorId) = {} => line.name = line.colorId

\* the numeric value of a lure number that is a JSON number or a string of digits
IsNumeric(number) == ~number.isString \/ IsDigitString(number.str)
NumericValue(number) ==
    IF number.isString THEN DigitsValue(number.str) ELSE number.num

\* C7: for a lure with a numeric number, a colour line whose cached colour has
\* an all-digit companyId shows floor(number / 100) * 100 + companyId, and a
\* line whose colour has no companyId or one with a non-digit shows no code.
C7_DerivedCode ==
    (IsLureDetails /\ IsNumeric(op.lure.number)) =>
        \A line \in Lines :
            \A c \in Cached(line.colorId) :
                IF IsSome(c.companyId) /\ IsDigitString(Get(c.companyId))
                THEN line.lureCode =
                        Some(Num((NumericValue(op.lure.number) \div 100) * 100
                                  + DigitsValue(Get(c.companyId))))
                ELSE line.lureCode = None

\* the entries <<colorId, code>> of a lure's own pre1925codes list, in order
OwnCodes(lure) ==
    IF IsSome(lure.pre1925codes) THEN Concat(Get(lure.pre1925codes)) ELSE << >>

\* C10: the legacy code of a colour line is the code the lure's own
\* pre1925codes list gives the line's colour id (its last entry for that id),
\* and the line shows no legacy code when that list has no entry for the id,
\* whatever pre1925Id list the colour itself carries.
C10_LegacyCodeIsOwn ==
    IsLureDetails =>
        \A line \in Lines :
            LET own == OwnCodes(op.lure)
                at == { i \in DOMAIN own : own[i][1] = line.colorId }
            IN  IF at = {} THEN line.pre1925 = None
                ELSE /\ IsSome(line.pre1925)
                     /\ \E i \in at : (\A j \in at : j <= i) /\ own[i][2] = Get(line.pre1925)

\* a details view with a line that shows the lure's own code for a colour
\* that carries its own pre1925Id list
C10_Witness ==
    /\ IsLureDetails
    /\ \E line \in Lines :
          /\ line.colorId \in DOMAIN colorLookup
          /\ IsSome(colorLookup[line.colorId].pre1925Id)
          /\ IsSome(line.pre1925)

\* the matchable fields of a cached lure, lower-cased: name, number (string
\* form), producer name
LureFields(lure) ==
    { ToLowerCase(lure.name), ToLowerCase(NumberToString(lure.number)),
      ToLowerCase(lure.manufacturerName) }

\* no cached lure's number is the query, as typed or normalised
NoNumberIsQuery ==
    \A l \in Elems(lureCache) :
        /\ NumberToString(l.number) # op.query
        /\ ToLowerCase(NumberToString(l.number)) # Trim(ToLowerCase(op.query))

\* C11: a lure search with a non-blank query that is no cached lure's number
\* returns a cached lure if and only if the query, lower-cased and trimmed,
\* is a substring of the lower-cased name, number or producer name of the
\* lure; the number is tested like the name, letter case aside.
C11_SubstringScan ==
    (IsLureSearch /\ ~Blank(op.query) /\ NoNumberIsQuery) =>
        \A l \in Elems(lureCache) :
            (l \in Elems(op.result)) <=>
                (\E f \in LureFields(l) : Includes(f, Trim(ToLowerCase(op.query))))

\* the lookup indexes of the colour database hold the query of the last
\* search (byId under its normalised form, byCompanyId as typed)
ByIdHolds ==
    /\ IsSome(IndexById(colorDatabase))
    /\ Trim(ToLowerCase(op.query)) \in Get(IndexById(colorDatabase))
ByCompanyIdHolds ==
    /\ IsSome(IndexByCompanyId(colorDatabase))
    /\ op.query \in DOMAIN Get(IndexByCompanyId(colorDatabase))

\* the cached colours behind those keys
CachedById ==
    { c \in Elems(colorCache) : ToLowerCase(c.id) = Trim(ToLowerCase(op.query)) }
CachedByCompanyId ==
    { c \in Elems(colorCache) :
        c.id \in Elems(Get(IndexByCompanyId(colorDatabase))[op.query]) }

\* the last search returned the ranked result of the substring scan
ScanResult ==
    /\ ByScan
    /\ RankedFor(Trim(ToLowerCase(op.query)))
    /\ ResultIsPermutationOfMatches

\* C12: a colour search with a non-blank query that the lookup indexes hold
\* as a key does not throw; a key of byId with no cached colour of that id
\* sends the search on to the company-code lookup, a key of byCompanyId none
\* of whose ids is cached sends it on to the substring scan, and a search
\* that neither lookup answers returns the ranked substring-scan result over
\* the cache.
C12_SoftMiss ==
    (IsColorSearch /\ ~Blank(op.query)) =>
        /\ (ByIdHolds \/ ByCompanyIdHolds) => ~op.thrown
        /\ (ByIdHolds /\ CachedById = {}) =>
              Len(op.steps) >= 2 /\ op.steps[2] = "byCompanyId"
        /\ (ByCompanyIdHolds /\ CachedByCompanyId = {} /\ ~(ByIdHolds /\ CachedById # {})) =>
              ScanResult
        /\ ( /\ ByIdHolds \/ ByCompanyIdHolds
             /\ ~(ByIdHolds /\ CachedById # {})
             /\ ~(ByCompanyIdHolds /\ CachedByCompanyId # {}) ) =>
              ScanResult

\* a search whose query byId holds with no cached colour of that id, answered
\* by the substring scan with a colour found
C12_Witness ==
    /\ IsColorSearch
    /\ ByIdHolds /\ CachedById = {}
    /\ ScanResult
    /\ op.result # << >>

\* a search whose query byCompanyId holds with none of the listed ids cached,
\* answered by the substring scan with a colour found
CompanyIdSoftMiss ==
    /\ IsColorSearch
    /\ ByCompanyIdHolds /\ CachedByCompanyId = {}
    /\ ScanResult
    /\ op.result # << >>

\* C13: for a lure whose number does not coerce to a number, no colour line
\* of the details view shows a derived code, whatever companyId the line's
\* colour carries.
C13_NoCodeForNonNumeric ==
    (IsLureDetails /\ ToNumber(op.lure.number).nan) =>
        \A line \in Lines : line.lureCode = None

\* the records the last call returned
ReturnedFromCache ==
    /\ (op.kind \in ColorArrayKinds \cup {"colorGetById"} /\ ~op.edited) =>
          Elems(op.result) \subseteq Elems(colorCache)
    /\ (op.kind \in LureArrayKinds \cup {"lureGetByName"} /\ ~op.edited) =>
          Elems(op.result) \subseteq Elems(lureCache)

\* a step leaves the content and the order of both caches as they were
CachesKept == colorCache' = colorCache /\ lureCache' = lureCache

\* C14: every record search, getById / getByName, getByCompanyId /
\* getByNumber and getAll return is an element of the cache, and no such
\* call, nor a caller appending to, removing from or reversing the array a
\* call returned, changes the content or the order of a cache.
C14_QueriesKeepIndex == [](ReturnedFromCache) /\ [][CachesKept]_vars

\* the caller has edited the array getAllColors returned from a filled cache
C14_Witness ==
    /\ op.kind = "colorGetAll"
    /\ op.edited
    /\ colorCache # << >>
    /\ op.result # colorCache


=============================================================================
